---- MODULE Spec2Model ----
(***************************************************************************)
(* Model of the vector-store facade of persistant-vector-db:               *)
(*   vector_service.py  (get_config, get_collection, add_documents,        *)
(*                       query_collection, delete_documents, main)         *)
(*   add_documents.py   (validate_payload, add_to_openai_collection and    *)
(*                       the script body under __main__)                   *)
(* The Chroma collection these call is modelled by the repository's own    *)
(* stand-in (tests/test_add_documents.py, DummyCollection) for add and     *)
(* delete, and as an exact nearest-neighbour search under squared          *)
(* Euclidean distance (Chroma's default space) for query.                  *)
(***************************************************************************)
EXTENDS Integers, Sequences, FiniteSets, TLC

VARIABLES env, dotenv, dirs, store, last, history

vars == <<env, dotenv, dirs, store, last, history>>

---------------------------------------------------------------------------
(* Python values *)

\* Python's None, and an environment variable that is not set.
None == "<None>"
Unset == "<unset>"

\* Truthiness of an Optional[str]: None and "" are falsy.
Truthy(s) == s # None /\ s # Unset /\ s # ""

\* a or b
Or(a, b) == IF Truthy(a) THEN a ELSE b

\* os.getenv(name, default) over the environment record e.
Getenv(e, name, default) == IF e[name] = Unset THEN default ELSE e[name]

\* str.lower() on the backend names the model draws from.
Lower(s) ==
  CASE s = "SIMPLE" -> "simple"
    [] s = "OpenAI" -> "openai"
    [] OTHER -> s

Min(a, b) == IF a <= b THEN a ELSE b

Range(s) == {s[i] : i \in DOMAIN s}

\* Sequences over S of length at most n.
SeqsUpTo(S, n) == UNION {[1..k -> S] : k \in 0..n}

---------------------------------------------------------------------------
(* Bounds of the model *)

\* Longest documents / metadatas / ids list of an ingestion batch.
MaxBatch == 2

\* Largest top_k a query asks for.
MaxTopK == 2

\* Longest --metadata argument of those drawn character by character.
MaxRaw == 4

---------------------------------------------------------------------------
(* Program constants *)

DEFAULT_PERSIST_DIRECTORY == "db"
DEFAULT_COLLECTION_NAME == "lake"
DEFAULT_EMBEDDING_BACKEND == "openai"

\* Modulus of SimpleEmbeddingFunction's checksum.
ChecksumModulus == 997

EnvNames ==
  {"VECTOR_PERSIST_DIRECTORY", "VECTOR_COLLECTION_NAME",
   "VECTOR_EMBEDDING_BACKEND", "OPENAI_KEY"}

---------------------------------------------------------------------------
(* Texts, as sequences of character codes (ord) *)

\* "Chocolate chip cookies"
Cookies ==
  <<67, 104, 111, 99, 111, 108, 97, 116, 101, 32, 99, 104, 105, 112, 32,
    99, 111, 111, 107, 105, 101, 115>>

\* "Freshly baked bread"
Bread ==
  <<70, 114, 101, 115, 104, 108, 121, 32, 98, 97, 107, 101, 100, 32, 98,
    114, 101, 97, 100>>

\* "chocolate"
QChocolate == <<99, 104, 111, 99, 111, 108, 97, 116, 101>>

\* "bread"
QBread == <<98, 114, 101, 97, 100>>

Documents == {Cookies, Bread}
QueryTexts == {QChocolate, QBread}

\* Metadata mappings, as sets of <<key, value>> pairs of strings, a string
\* being the sequence of its characters; {} is the empty dict.
Dessert ==
  { <<<<"c", "a", "t", "e", "g", "o", "r", "y">>,
      <<"d", "e", "s", "s", "e", "r", "t">>>>,
    <<<<"r", "a", "t", "i", "n", "g">>, <<"5">>>> }
Bakery ==
  { <<<<"c", "a", "t", "e", "g", "o", "r", "y">>,
      <<"b", "a", "k", "e", "r", "y">>>>,
    <<<<"r", "a", "t", "i", "n", "g">>, <<"4">>>> }
Metadatas == {Dessert, Bakery}

Ids == {"doc_1", "doc_2"}

---------------------------------------------------------------------------
(* SimpleEmbeddingFunction *)

RECURSIVE SumOrd(_)
SumOrd(text) ==
  IF text = <<>> THEN 0 ELSE Head(text) + SumOrd(Tail(text))

\* One text -> [float(len(text)), float(sum(ord(ch)) % 997)]
SimpleEmbed(text) == <<Len(text), SumOrd(text) % ChecksumModulus>>

\* SimpleEmbeddingFunction.__call__: one vector per text, in order.
SimpleEmbeddingFunction(texts) == [i \in DOMAIN texts |-> SimpleEmbed(texts[i])]

\* The vectors of the texts the model draws from, computed once.
SimpleVectors ==
  [t \in Documents \cup QueryTexts |-> SimpleEmbeddingFunction(<<t>>)[1]]

---------------------------------------------------------------------------
(* Configuration *)

VectorConfig(pd, cn, eb) ==
  [persist_directory |-> pd, collection_name |-> cn, embedding_backend |-> eb]

\* load_dotenv(): variables of the .env file fill the ones the process
\* environment leaves unset.
load_environment(e, f) ==
  [k \in EnvNames |-> IF e[k] = Unset THEN f[k] ELSE e[k]]

\* get_config with the environment consulted before the explicit argument.
get_config_env_first(pd, cn, eb, e) ==
  VectorConfig(
    Getenv(e, "VECTOR_PERSIST_DIRECTORY", Or(pd, DEFAULT_PERSIST_DIRECTORY)),
    Getenv(e, "VECTOR_COLLECTION_NAME", Or(cn, DEFAULT_COLLECTION_NAME)),
    Getenv(e, "VECTOR_EMBEDDING_BACKEND", Or(eb, DEFAULT_EMBEDDING_BACKEND)))

\* get_config(persist_directory=pd, collection_name=cn, embedding_backend=eb)
\* evaluated in the environment e (after load_environment).
get_config(pd, cn, eb, e) ==
  VectorConfig(
    Or(pd, Getenv(e, "VECTOR_PERSIST_DIRECTORY", DEFAULT_PERSIST_DIRECTORY)),
    Or(cn, Getenv(e, "VECTOR_COLLECTION_NAME", DEFAULT_COLLECTION_NAME)),
    Or(eb, Getenv(e, "VECTOR_EMBEDDING_BACKEND", DEFAULT_EMBEDDING_BACKEND)))

---------------------------------------------------------------------------
(* Errors and operation outcomes *)

Err(type, msg) == [type |-> type, msg |-> msg]
NoError == Err("none", "none")

\* The ValueErrors this layer raises, by the statement that raises them.
LengthError == Err("ValueError", "documents, metadatas and ids must have the same length")
TopKError == Err("ValueError", "top_k must be a positive integer")
EmptyIdsError == Err("ValueError", "ids must contain at least one identifier")
MissingKeyError == Err("ValueError", "OPENAI_KEY environment variable must be set")
BackendError == Err("ValueError", "Unsupported embedding backend")
MainLengthError == Err("ValueError", "Each document must have a matching id and metadata entry")

\* json.loads could not decode a --metadata argument.
JsonDecodeError == Err("JSONDecodeError", "Expecting property name enclosed in double quotes")

\* An exception raised inside the collaborator (the store).
CollaboratorError(call) == Err("CollaboratorError", call)

\* The ValueErrors validate_payload and load_openai_key raise.
DocumentsTypeError == Err("ValueError", "documents must be a JSON array of strings.")
IdsTypeError == Err("ValueError", "ids must be a JSON array of strings.")
MetadatasTypeError == Err("ValueError", "metadatas must be a JSON array of objects.")
MetadataEntryError == Err("ValueError", "Each metadata entry must be a JSON object (dictionary).")
PayloadLengthError == Err("ValueError", "documents, metadatas, and ids must contain the same number of entries.")
LegacyKeyError == Err("ValueError", "OPENAI_KEY is not set in the .env file.")

\* The field names an error message spells out.
FieldsNamed(err) ==
  IF err \in {LengthError, PayloadLengthError} THEN {"documents", "metadatas", "ids"}
  ELSE IF err \in {EmptyIdsError, IdsTypeError} THEN {"ids"}
  ELSE IF err = DocumentsTypeError THEN {"documents"}
  ELSE IF err = MetadatasTypeError THEN {"metadatas"}
  ELSE {}

\* config=None is written as a configuration with no field set.
NoConfig == VectorConfig(None, None, None)

---------------------------------------------------------------------------
(* The persistent store: one collection per (persist_directory, name) *)

Paths == {DEFAULT_PERSIST_DIRECTORY, "tmp"}
Names == {DEFAULT_COLLECTION_NAME, "integration_tests"}
Keys == Paths \X Names

NoCollection == [exists |-> FALSE, items |-> <<>>]

Item(id, document, metadata) ==
  [id |-> id, document |-> document, metadata |-> metadata]

HasId(items, id) == \E j \in DOMAIN items : items[j].id = id

\* DummyCollection.add: zip the three lists; an id already stored raises,
\* leaving the entries inserted before it in place.
RECURSIVE DummyAdd(_, _, _, _, _)
DummyAdd(items, documents, metadatas, ids, i) ==
  IF i > Min(Len(documents), Min(Len(metadatas), Len(ids)))
  THEN [items |-> items, raised |-> FALSE]
  ELSE IF HasId(items, ids[i])
  THEN [items |-> items, raised |-> TRUE]
  ELSE DummyAdd(Append(items, Item(ids[i], documents[i], metadatas[i])),
                documents, metadatas, ids, i + 1)

\* DummyCollection.remove: pop each id, ignoring the ones not stored.
DummyRemove(items, ids) ==
  SelectSeq(items, LAMBDA it : it.id \notin Range(ids))

\* Squared Euclidean distance of two vectors of the same dimension.
RECURSIVE SqDist(_, _)
SqDist(u, v) ==
  IF u = <<>> THEN 0
  ELSE (Head(u) - Head(v)) * (Head(u) - Head(v)) + SqDist(Tail(u), Tail(v))

\* The orders in which a nearest-neighbour search may rank the items for a
\* query text.  Under the local embedding: every order that never puts a
\* strictly farther item before a nearer one (ties in any order), the
\* vectors being those of the collection's embedding function.  Under the
\* remote embedding the vectors are not known to this layer: any order.
Rankings(items, ef, text) ==
  LET n == Len(items)
      Perms == {p \in [1..n -> 1..n] : \A a, b \in 1..n : a # b => p[a] # p[b]}
      D(k) == SqDist(SimpleVectors[text], SimpleVectors[items[k].document])
  IN IF ef = "simple"
     THEN {p \in Perms : \A a, b \in 1..n : a < b => D(p[a]) <= D(p[b])}
     ELSE Perms

\* collection.query(query_texts=[text], n_results=top_k): the top_k nearest
\* items (all of them when fewer are stored), nearest first.
CollectionQuery(items, top_k, p) ==
  [k \in 1..Min(top_k, Len(items)) |->
     [id |-> items[p[k]].id, document |-> items[p[k]].document,
      metadata |-> items[p[k]].metadata]]

---------------------------------------------------------------------------
(* Store facade: vector_service.py *)

\* _build_embedding_function with an unknown backend falling back to the
\* local embedding instead of raising.
build_embedding_function_fallback(cfg, e) ==
  LET backend == Lower(cfg.embedding_backend) IN
  IF backend = "openai"
  THEN IF ~Truthy(e["OPENAI_KEY"])
       THEN [err |-> MissingKeyError, ef |-> None, calls |-> <<>>]
       ELSE [err |-> NoError, ef |-> "openai", calls |-> <<"OpenAIEmbeddingFunction">>]
  ELSE [err |-> NoError, ef |-> "simple", calls |-> <<>>]

\* _build_embedding_function handing the key to the remote embedding
\* function without checking that it is set.
build_embedding_function_unchecked_key(cfg, e) ==
  LET backend == Lower(cfg.embedding_backend) IN
  IF backend = "openai"
  THEN [err |-> NoError, ef |-> "openai", calls |-> <<"OpenAIEmbeddingFunction">>]
  ELSE IF backend = "simple"
  THEN [err |-> NoError, ef |-> "simple", calls |-> <<>>]
  ELSE [err |-> BackendError, ef |-> None, calls |-> <<>>]

\* _build_embedding_function(config), reading OPENAI_KEY from e.
build_embedding_function(cfg, e) ==
  LET backend == Lower(cfg.embedding_backend) IN
  IF backend = "openai"
  THEN IF ~Truthy(e["OPENAI_KEY"])
       THEN [err |-> MissingKeyError, ef |-> None, calls |-> <<>>]
       ELSE [err |-> NoError, ef |-> "openai", calls |-> <<"OpenAIEmbeddingFunction">>]
  ELSE IF backend = "simple"
  THEN [err |-> NoError, ef |-> "simple", calls |-> <<>>]
  ELSE [err |-> BackendError, ef |-> None, calls |-> <<>>]

\* get_client(config): chromadb.PersistentClient(path) creates the directory.
get_client(cfg, ds) ==
  [calls |-> <<"PersistentClient">>, dirs |-> ds \cup {cfg.persist_directory}]

\* get_collection handing back a newly created, empty collection with each
\* handle instead of the one already stored under the name.
get_collection_recreated(config, e, f, ds, st) ==
  LET envA == IF config = NoConfig THEN load_environment(e, f) ELSE e
      cfg == IF config = NoConfig THEN get_config(None, None, None, envA) ELSE config
      key == <<cfg.persist_directory, cfg.collection_name>>
      client == get_client(cfg, ds)
      b == build_embedding_function(cfg, envA)
  IN IF b.err # NoError
     THEN [err |-> b.err, calls |-> client.calls \o b.calls, env |-> envA,
           dirs |-> client.dirs, store |-> st, key |-> key, ef |-> b.ef, cfg |-> cfg]
     ELSE [err |-> NoError,
           calls |-> client.calls \o b.calls \o <<"get_or_create_collection">>,
           env |-> envA, dirs |-> client.dirs,
           store |-> [st EXCEPT ![key] = [exists |-> TRUE, items |-> <<>>]],
           key |-> key, ef |-> b.ef, cfg |-> cfg]

\* get_collection(config): cfg = config or get_config(); then the client,
\* then the embedding function, then get_or_create_collection.
get_collection(config, e, f, ds, st) ==
  LET envA == IF config = NoConfig THEN load_environment(e, f) ELSE e
      cfg == IF config = NoConfig THEN get_config(None, None, None, envA) ELSE config
      key == <<cfg.persist_directory, cfg.collection_name>>
      client == get_client(cfg, ds)
      b == build_embedding_function(cfg, envA)
  IN IF b.err # NoError
     THEN [err |-> b.err, calls |-> client.calls \o b.calls, env |-> envA,
           dirs |-> client.dirs, store |-> st, key |-> key, ef |-> b.ef, cfg |-> cfg]
     ELSE [err |-> NoError,
           calls |-> client.calls \o b.calls \o <<"get_or_create_collection">>,
           env |-> envA, dirs |-> client.dirs,
           store |-> [st EXCEPT ![key].exists = TRUE],
           key |-> key, ef |-> b.ef, cfg |-> cfg]

\* What an operation leaves behind: the error it raised (NoError when it
\* returned), the collaborator calls it made, the state, and its result.
Outcome(err, calls, e, ds, st, result) ==
  [err |-> err, calls |-> calls, env |-> e, dirs |-> ds, store |-> st,
   result |-> result]

\* The length check comparing documents with ids only.
SameLengthDocumentsIds(documents, metadatas, ids) == Len(documents) = Len(ids)

\* len(documents) == len(metadatas) == len(ids)
SameLength(documents, metadatas, ids) ==
  Len(documents) = Len(metadatas) /\ Len(metadatas) = Len(ids)

\* The top_k guard written with < in place of <=.
NonNegativeTopK(top_k) == ~(top_k < 0)

\* The guard of query_collection passes: not (top_k <= 0).
PositiveTopK(top_k) == ~(top_k <= 0)

\* The ids guard left out.
AnyIds(ids) == TRUE

\* The guard of delete_documents passes: ids is not empty (not (not ids)).
HasIds(ids) == ids # <<>>

\* add_documents(documents, metadatas, ids, config=config); fault: the
\* collaborator's add raises for a reason of its own.
add_documents(documents, metadatas, ids, config, fault, e, f, ds, st) ==
  IF ~SameLength(documents, metadatas, ids)
  THEN Outcome(LengthError, <<>>, e, ds, st, <<>>)
  ELSE LET c == get_collection(config, e, f, ds, st) IN
       IF c.err # NoError
       THEN Outcome(c.err, c.calls, c.env, c.dirs, c.store, <<>>)
       ELSE IF fault
       THEN Outcome(CollaboratorError("add"), Append(c.calls, "add"),
                    c.env, c.dirs, c.store, <<>>)
       ELSE LET a == DummyAdd(c.store[c.key].items, documents, metadatas, ids, 1) IN
            Outcome(IF a.raised THEN CollaboratorError("add") ELSE NoError,
                    Append(c.calls, "add"), c.env, c.dirs,
                    [c.store EXCEPT ![c.key].items = a.items], <<>>)

\* query_collection(query_text, top_k, config=config); p: the ranking the
\* search returns.
query_collection(query_text, top_k, config, fault, p, e, f, ds, st) ==
  IF ~PositiveTopK(top_k)
  THEN Outcome(TopKError, <<>>, e, ds, st, <<>>)
  ELSE LET c == get_collection(config, e, f, ds, st) IN
       IF c.err # NoError
       THEN Outcome(c.err, c.calls, c.env, c.dirs, c.store, <<>>)
       ELSE IF fault
       THEN Outcome(CollaboratorError("query"), Append(c.calls, "query"),
                    c.env, c.dirs, c.store, <<>>)
       ELSE Outcome(NoError, Append(c.calls, "query"), c.env, c.dirs, c.store,
                    CollectionQuery(c.store[c.key].items, top_k, p))

\* delete_documents(ids, config=config)
delete_documents(ids, config, fault, e, f, ds, st) ==
  IF ~HasIds(ids)
  THEN Outcome(EmptyIdsError, <<>>, e, ds, st, <<>>)
  ELSE LET c == get_collection(config, e, f, ds, st) IN
       IF c.err # NoError
       THEN Outcome(c.err, c.calls, c.env, c.dirs, c.store, <<>>)
       ELSE IF fault
       THEN Outcome(CollaboratorError("delete"), Append(c.calls, "delete"),
                    c.env, c.dirs, c.store, <<>>)
       ELSE Outcome(NoError, Append(c.calls, "delete"), c.env, c.dirs,
                    [c.store EXCEPT ![c.key].items = DummyRemove(@, ids)], ids)

---------------------------------------------------------------------------
(* Command line of vector_service.py: main, ingest *)

\* Strings a --metadata argument is made of are sequences of characters.
Quote == "\""

\* str.strip(): leading and trailing whitespace removed.
RECURSIVE LStrip(_)
LStrip(s) == IF s # <<>> /\ Head(s) = " " THEN LStrip(Tail(s)) ELSE s

RECURSIVE RStrip(_)
RStrip(s) ==
  IF s # <<>> /\ s[Len(s)] = " " THEN RStrip(SubSeq(s, 1, Len(s) - 1)) ELSE s

Strip(s) == RStrip(LStrip(s))

\* Index of the first (last) occurrence of sep in s; 0 when there is none.
Find(s, sep) ==
  IF \E j \in DOMAIN s : s[j] = sep
  THEN CHOOSE j \in DOMAIN s : s[j] = sep /\ \A k \in 1..(j - 1) : s[k] # sep
  ELSE 0

RFind(s, sep) ==
  IF \E j \in DOMAIN s : s[j] = sep
  THEN CHOOSE j \in DOMAIN s : s[j] = sep /\ \A k \in (j + 1)..Len(s) : s[k] # sep
  ELSE 0

\* str.split(sep): the pieces between the separators, empty ones included.
RECURSIVE Split(_, _)
Split(s, sep) ==
  LET j == Find(s, sep) IN
  IF j = 0 THEN <<s>>
  ELSE <<SubSeq(s, 1, j - 1)>> \o Split(SubSeq(s, j + 1, Len(s)), sep)

\* str.rpartition(sep) in the place of partition: split on the last sep.
RPartition(item, sep) ==
  LET j == RFind(item, sep) IN
  IF j = 0 THEN [key |-> item, value |-> <<>>]
  ELSE [key |-> SubSeq(item, 1, j - 1), value |-> SubSeq(item, j + 1, Len(item))]

\* key, _, value = item.partition(sep): split on the first sep; without
\* one, the whole item is the key and the value is empty.
Partition(item, sep) ==
  LET j == Find(item, sep) IN
  IF j = 0 THEN [key |-> item, value |-> <<>>]
  ELSE [key |-> SubSeq(item, 1, j - 1), value |-> SubSeq(item, j + 1, Len(item))]

\* d[key] = value on a dict held as a set of <<key, value>> pairs.
DictSet(d, key, value) == {kv \in d : kv[1] # key} \cup {<<key, value>>}

\* The key=value branch: every non-empty item of raw.split(","), in order.
RECURSIVE KeyValues(_, _)
KeyValues(items, metadata_dict) ==
  IF items = <<>> THEN metadata_dict
  ELSE IF Head(items) = <<>> THEN KeyValues(Tail(items), metadata_dict)
  ELSE LET kv == Partition(Head(items), "=") IN
       KeyValues(Tail(items), DictSet(metadata_dict, Strip(kv.key), Strip(kv.value)))

\* json.loads on a text that starts with "{": an object whose keys and
\* values are strings (the values of the inputs the model draws from);
\* ok is FALSE where json.loads raises JSONDecodeError.
JsonFail == [ok |-> FALSE, value |-> {}, rest |-> <<>>]

JsonString(s) ==
  IF s = <<>> \/ Head(s) # Quote THEN JsonFail
  ELSE LET j == Find(Tail(s), Quote) IN
       IF j = 0 THEN JsonFail
       ELSE [ok |-> TRUE, value |-> SubSeq(s, 2, j), rest |-> SubSeq(s, j + 2, Len(s))]

RECURSIVE JsonMembers(_, _)
JsonMembers(s, acc) ==
  LET k == JsonString(s)
      u == LStrip(k.rest)
  IN IF ~k.ok \/ u = <<>> \/ Head(u) # ":" THEN JsonFail
     ELSE LET v == JsonString(LStrip(Tail(u)))
              w == LStrip(v.rest)
          IN IF ~v.ok \/ w = <<>> THEN JsonFail
             ELSE IF Head(w) = "}"
             THEN [ok |-> TRUE, value |-> DictSet(acc, k.value, v.value), rest |-> Tail(w)]
             ELSE IF Head(w) = ","
             THEN JsonMembers(LStrip(Tail(w)), DictSet(acc, k.value, v.value))
             ELSE JsonFail

json_loads(raw) ==
  LET t == LStrip(Tail(raw))
      o == IF t # <<>> /\ Head(t) = "}"
           THEN [ok |-> TRUE, value |-> {}, rest |-> Tail(t)]
           ELSE JsonMembers(t, {})
  IN IF o.ok /\ LStrip(o.rest) = <<>> THEN o ELSE JsonFail

\* The --metadata arguments main is run with.
\* "category=dessert,rating=5"
RawDessert ==
  <<"c", "a", "t", "e", "g", "o", "r", "y", "=", "d", "e", "s", "s", "e",
    "r", "t", ",", "r", "a", "t", "i", "n", "g", "=", "5">>

\* "category=bakery,rating=4"
RawBakery ==
  <<"c", "a", "t", "e", "g", "o", "r", "y", "=", "b", "a", "k", "e", "r",
    "y", ",", "r", "a", "t", "i", "n", "g", "=", "4">>

\* "{category=dessert}": starts like JSON and is not.
RawBroken ==
  <<"{", "c", "a", "t", "e", "g", "o", "r", "y", "=", "d", "e", "s", "s",
    "e", "r", "t", "}">>

RawMetadatas == {RawDessert, RawBakery, RawBroken}

\* The body of _parse_metadata's loop for one raw argument.
parse_metadata_one(raw) ==
  LET stripped == Strip(raw) IN
  IF stripped = <<>> THEN [ok |-> TRUE, value |-> {}]
  ELSE IF Head(stripped) = "{"
  THEN LET j == json_loads(stripped) IN [ok |-> j.ok, value |-> j.value]
  ELSE [ok |-> TRUE, value |-> KeyValues(Split(stripped, ","), {})]

\* _parse_metadata(metadata_args): one mapping per argument, in order;
\* raises where json.loads does.
parse_metadata_raises(metadata_args) ==
  \E i \in DOMAIN metadata_args : ~parse_metadata_one(metadata_args[i]).ok

parse_metadata(metadata_args) ==
  [i \in DOMAIN metadata_args |-> parse_metadata_one(metadata_args[i]).value]

\* A dict as an object: ref tells one dict from another of equal content.
Obj(ref, value) == [ref |-> ref, value |-> value]

\* The list _parse_metadata returns: each parsed.append(...) a dict of its own.
Alloc(values) == [i \in DOMAIN values |-> Obj(i, values[i])]

Values(objs) == [i \in DOMAIN objs |-> objs[i].value]

\* The broadcast taken whenever any metadata is given.
IngestMetadatasFirstOnly(parsed, documents) ==
  IF Len(parsed) = 0 THEN [i \in DOMAIN documents |-> Obj(i, {})]
  ELSE [i \in DOMAIN documents |-> Obj(Len(parsed) + i, parsed[1].value)]

\* The broadcast without .copy(): the one dict itself for every document.
IngestMetadatasShared(parsed, documents) ==
  IF Len(parsed) = 0 THEN [i \in DOMAIN documents |-> Obj(i, {})]
  ELSE IF Len(parsed) = 1 /\ Len(documents) > 1
  THEN [i \in DOMAIN documents |-> parsed[1]]
  ELSE parsed

\* The metadatas main hands on: none given, a new empty dict per document;
\* one given for several documents, metadatas[0].copy() per document (a new
\* dict each, holding the items of the first); else the list as parsed.
IngestMetadatas(parsed, documents) ==
  IF Len(parsed) = 0 THEN [i \in DOMAIN documents |-> Obj(i, {})]
  ELSE IF Len(parsed) = 1 /\ Len(documents) > 1
  THEN [i \in DOMAIN documents |-> Obj(Len(parsed) + i, parsed[1].value)]
  ELSE parsed

\* The ingest branch of main: parse the metadata, default or broadcast it,
\* check the lengths, add, print the count and return 0.  An exception
\* leaves main uncaught: the interpreter exits with status 1.  handed: the
\* metadata dicts as main holds them when it checks the lengths.
main_ingest(documents, metadata_args, ids, pd, cn, eb, fault, e, f, ds, st) ==
  LET envA == load_environment(e, f)
      config == get_config(pd, cn, eb, envA)
      metadatas == IngestMetadatas(Alloc(parse_metadata(metadata_args)), documents)
  IN IF parse_metadata_raises(metadata_args)
     THEN [out |-> Outcome(JsonDecodeError, <<>>, envA, ds, st, <<>>),
           exit |-> 1, printed |-> "", count |-> -1, config |-> config,
           handed |-> <<>>]
     ELSE IF ~(Len(documents) = Len(ids) /\ Len(ids) = Len(metadatas))
     THEN [out |-> Outcome(MainLengthError, <<>>, envA, ds, st, <<>>),
           exit |-> 1, printed |-> "", count |-> -1, config |-> config,
           handed |-> metadatas]
     ELSE LET o == add_documents(documents, Values(metadatas), ids, config, fault,
                                 envA, f, ds, st)
          IN IF o.err # NoError
             THEN [out |-> o, exit |-> 1, printed |-> "", count |-> -1,
                   config |-> config, handed |-> metadatas]
             ELSE [out |-> o, exit |-> 0,
                   printed |-> "Added n document(s) to collection",
                   count |-> Len(ids), config |-> config, handed |-> metadatas]

---------------------------------------------------------------------------
(* Legacy entry point: add_documents.py *)

\* A value load_json_input returns: a JSON array, or some other JSON value.
JsonList(items) == [kind |-> "list", items |-> items]
JsonOther == [kind |-> "other", items |-> <<>>]

\* A metadata entry that is not a JSON object.
NotADict == {<<<<"<not a dict>">>, <<>>>>}

\* validate_payload(documents, metadatas, ids): the error it raises, or NoError.
validate_payload(documents, metadatas, ids) ==
  IF documents.kind # "list" THEN DocumentsTypeError
  ELSE IF ids.kind # "list" THEN IdsTypeError
  ELSE IF metadatas.kind # "list" THEN MetadatasTypeError
  ELSE IF \E i \in DOMAIN metadatas.items : metadatas.items[i] = NotADict
  THEN MetadataEntryError
  ELSE IF Cardinality({Len(documents.items), Len(metadatas.items), Len(ids.items)}) # 1
  THEN PayloadLengthError
  ELSE NoError

\* load_openai_key(): load_dotenv(), then OPENAI_KEY or a ValueError.
load_openai_key(e, f) ==
  LET envA == load_environment(e, f) IN
  [err |-> IF ~Truthy(envA["OPENAI_KEY"]) THEN LegacyKeyError ELSE NoError,
   env |-> envA]

\* add_to_openai_collection: the add inside try/except Exception; either
\* way the function returns, having printed one line.
add_to_openai_collection(items, documents, metadatas, ids, fault) ==
  LET a == IF fault THEN [items |-> items, raised |-> TRUE]
           ELSE DummyAdd(items, documents, metadatas, ids, 1)
  IN [items |-> a.items,
      raised |-> a.raised,
      printed |-> IF a.raised THEN "Error occurred while adding documents"
                  ELSE "Documents added to the collection successfully."]

LegacyKey == <<"db", "lake">>

\* The script body: validate, open the client, load the key, build the
\* embedding function, get the collection, add.  ValueError exits 1; falling
\* off the end of the script exits 0.
legacy_main(documents, metadatas, ids, fault, e, f, ds, st) ==
  LET v == validate_payload(documents, metadatas, ids) IN
  IF v # NoError
  THEN [out |-> Outcome(v, <<>>, e, ds, st, <<>>), exit |-> 1, printed |-> v.msg,
        add_raised |-> FALSE]
  ELSE LET k == load_openai_key(e, f)
           ds1 == ds \cup {"db"}
       IN IF k.err # NoError
          THEN [out |-> Outcome(k.err, <<"PersistentClient">>, k.env, ds1, st, <<>>),
                exit |-> 1, printed |-> k.err.msg, add_raised |-> FALSE]
          ELSE LET st1 == [st EXCEPT ![LegacyKey].exists = TRUE]
                   a == add_to_openai_collection(st1[LegacyKey].items, documents.items,
                                                 metadatas.items, ids.items, fault)
               IN [out |-> Outcome(NoError,
                                   <<"PersistentClient", "OpenAIEmbeddingFunction",
                                     "get_or_create_collection", "add">>,
                                   k.env, ds1,
                                   [st1 EXCEPT ![LegacyKey].items = a.items], <<>>),
                   exit |-> 0, printed |-> a.printed, add_raised |-> a.raised]

---------------------------------------------------------------------------
(* State *)

\* env     the process environment (os.environ)
\* dotenv  the variables of the .env file
\* dirs    the persistence directories a PersistentClient has created
\* store   the collections on disk, by (persist_directory, collection_name)
\* last    the last call: its arguments, what it raised or returned, the
\*         collaborator calls it made, and the store as it was before
\* history what the callers have done to each collection so far: added, the
\*         ids of the add calls that returned and that no delete that
\*         returned has named since; offered, the same counting every add
\*         that reached the store, whether or not it then raised

Environ(pd, cn, eb, key) ==
  [VECTOR_PERSIST_DIRECTORY |-> pd, VECTOR_COLLECTION_NAME |-> cn,
   VECTOR_EMBEDDING_BACKEND |-> eb, OPENAI_KEY |-> key]

NoEnviron == Environ(Unset, Unset, Unset, Unset)

\* The environments the store operations run in: the integration test's,
\* the defaults with the key in .env, the defaults without a key, and an
\* unsupported backend name.
Profiles ==
  { [env |-> Environ("tmp", "integration_tests", "simple", Unset), dotenv |-> NoEnviron],
    [env |-> NoEnviron, dotenv |-> Environ(Unset, Unset, Unset, "sk-test")],
    [env |-> NoEnviron, dotenv |-> NoEnviron],
    [env |-> Environ(Unset, Unset, "bogus", "sk-test"), dotenv |-> NoEnviron] }

\* The environments configuration resolution is checked in.
ConfigEnvirons ==
  { Environ(pd, cn, eb, Unset) :
      pd \in {Unset, "", "tmp"}, cn \in {Unset, "", "integration_tests"},
      eb \in {Unset, "", "simple", "bogus"} }

ConfigDotenvs == {NoEnviron, Environ("tmp", Unset, "simple", Unset)}

\* Arguments.  The documents and metadata of a batch are the first n of a
\* fixed series (so position i always carries the same content, different
\* from its neighbours'); the ids are any sequence over Ids.
DocAt(i) == IF i % 2 = 1 THEN Cookies ELSE Bread
MetaAt(i) == IF i % 2 = 1 THEN Dessert ELSE Bakery
RawMetaAt(i) == IF i % 2 = 1 THEN RawDessert ELSE RawBakery

DocBatches == {[i \in 1..n |-> DocAt(i)] : n \in 0..MaxBatch}
MetaBatches == {[i \in 1..n |-> MetaAt(i)] : n \in 0..MaxBatch}
RawMetaBatches == {[i \in 1..n |-> RawMetaAt(i)] : n \in 0..MaxBatch} \cup {<<RawBroken>>}
IdBatches == SeqsUpTo(Ids, MaxBatch)
TopKs == (-1)..MaxTopK

PathArgs == {None, "", "cli_dir"}
NameArgs == {None, "", "cli_name"}
BackendArgs == {None, "", "simple", "SIMPLE", "bogus"}

\* --embedding-backend is restricted by argparse to its two choices.
CliBackendArgs == {None, "openai", "simple"}

\* The config= argument of the store operations: None, or a VectorConfig
\* for the directory and collection of the environment.
ExplicitBackends == {"SIMPLE", "bogus"}
ConfigArgs(e) == {NoConfig} \cup {get_config(None, None, b, e) : b \in ExplicitBackends}

\* The arguments of a call, and what the command line shows of it.
Args(documents, metadatas, ids, text, top_k, config) ==
  [documents |-> documents, metadatas |-> metadatas, ids |-> ids,
   text |-> text, top_k |-> top_k, config |-> config]

NoArgs == Args(<<>>, <<>>, <<>>, <<>>, 0, NoConfig)

\* exit: the process's exit status; printed: the line printed; count: the
\* number of documents reported added (-1, "": none).
Cli(exit, printed, count) == [exit |-> exit, printed |-> printed, count |-> count]

NoCli == Cli(-1, "", -1)

\* add_raised: the collaborator's add was called and raised; handed: the
\* metadata dicts main's ingest branch came to hold (<<>> for other calls).
Call(op, args, o, cli, add_raised, before) ==
  [op |-> op, documents |-> args.documents, metadatas |-> args.metadatas,
   ids |-> args.ids, text |-> args.text, top_k |-> args.top_k,
   config |-> args.config,
   err |-> o.err, calls |-> o.calls, result |-> o.result,
   exit |-> cli.exit, printed |-> cli.printed, count |-> cli.count,
   add_raised |-> add_raised, before |-> before, handed |-> <<>>]

NoCall ==
  Call("none", NoArgs, Outcome(NoError, <<>>, NoEnviron, {}, <<>>, <<>>), NoCli,
       FALSE, [k \in Keys |-> NoCollection])

NoHistory == [k \in Keys |-> [added |-> {}, offered |-> {}]]

\* The history after an add of ids to the collection at key: reached, the
\* store's add was called; raised, the call did not return.
AfterAdd(h, key, ids, reached, raised) ==
  IF ~reached THEN h
  ELSE [h EXCEPT ![key].offered = @ \cup Range(ids),
                 ![key].added = IF raised THEN @ ELSE @ \cup Range(ids)]

\* The history after a delete of ids from the collection at key.
AfterDelete(h, key, ids, returned) ==
  IF ~returned THEN h
  ELSE [h EXCEPT ![key].offered = @ \ Range(ids), ![key].added = @ \ Range(ids)]

Reached(o, name) == \E i \in DOMAIN o.calls : o.calls[i] = name

\* The collection a configuration names.
KeyOf(cfg) == <<cfg.persist_directory, cfg.collection_name>>

\* The collection a call with config= reaches: cfg = config or get_config().
CollectionKey(config, e, f) ==
  KeyOf(IF config = NoConfig
        THEN get_config(None, None, None, load_environment(e, f))
        ELSE config)

Init ==
  /\ \E pr \in Profiles : env = pr.env /\ dotenv = pr.dotenv
  /\ dirs = {}
  /\ store = [k \in Keys |-> NoCollection]
  /\ last = NoCall
  /\ history = NoHistory

InitConfig ==
  /\ env \in ConfigEnvirons
  /\ dotenv \in ConfigDotenvs
  /\ dirs = {}
  /\ store = [k \in Keys |-> NoCollection]
  /\ last = NoCall
  /\ history = NoHistory

Apply(o) ==
  /\ env' = o.env
  /\ dirs' = o.dirs
  /\ store' = o.store
  /\ UNCHANGED dotenv

---------------------------------------------------------------------------
(* Actions: one per entry point *)

\* What a call leaves in the state once its outcome o is known.
GetConfigDone(pd, cn, eb, o) ==
  /\ Apply(o)
  /\ last' = Call("get_config", Args(<<>>, <<>>, <<>>, <<>>, 0, VectorConfig(pd, cn, eb)),
                  o, NoCli, FALSE, store)
  /\ UNCHANGED history

GetConfigCall ==
  /\ last = NoCall
  /\ \E pd \in PathArgs, cn \in NameArgs, eb \in BackendArgs :
       GetConfigDone(pd, cn, eb,
                     Outcome(NoError, <<>>, load_environment(env, dotenv), dirs, store,
                             get_config(pd, cn, eb, load_environment(env, dotenv))))

AddDocumentsDone(documents, metadatas, ids, config, o, key) ==
  /\ Apply(o)
  /\ last' = Call("add_documents", Args(documents, metadatas, ids, <<>>, 0, config),
                  o, NoCli, o.err = CollaboratorError("add"), store)
  /\ history' = AfterAdd(history, key, ids, Reached(o, "add"), o.err # NoError)

AddDocumentsCall ==
  /\ last = NoCall
  /\ \E documents \in DocBatches, metadatas \in MetaBatches, ids \in IdBatches,
     config \in ConfigArgs(env), fault \in BOOLEAN :
       AddDocumentsDone(documents, metadatas, ids, config,
                        add_documents(documents, metadatas, ids, config, fault,
                                      env, dotenv, dirs, store),
                        CollectionKey(config, env, dotenv))

QueryCollectionDone(text, top_k, config, o) ==
  /\ Apply(o)
  /\ last' = Call("query_collection", Args(<<>>, <<>>, <<>>, text, top_k, config),
                  o, NoCli, FALSE, store)
  /\ UNCHANGED history

\* The rankings the search may return for text over what the collection
\* handle c reaches.
QueryRankings(c, text) ==
  Rankings(IF c.err = NoError THEN c.store[c.key].items ELSE <<>>, c.ef, text)

QueryCollectionCall ==
  /\ last = NoCall
  /\ \E text \in QueryTexts, top_k \in TopKs, config \in ConfigArgs(env),
     fault \in BOOLEAN :
       \E p \in QueryRankings(get_collection(config, env, dotenv, dirs, store), text) :
         QueryCollectionDone(text, top_k, config,
                             query_collection(text, top_k, config, fault, p,
                                              env, dotenv, dirs, store))

DeleteDocumentsDone(ids, config, o, key) ==
  /\ Apply(o)
  /\ last' = Call("delete_documents", Args(<<>>, <<>>, ids, <<>>, 0, config),
                  o, NoCli, FALSE, store)
  /\ history' = AfterDelete(history, key, ids, o.err = NoError)

DeleteDocumentsCall ==
  /\ last = NoCall
  /\ \E ids \in IdBatches, config \in ConfigArgs(env), fault \in BOOLEAN :
       DeleteDocumentsDone(ids, config,
                           delete_documents(ids, config, fault, env, dotenv, dirs, store),
                           CollectionKey(config, env, dotenv))

MainIngestDone(documents, metadata_args, ids, m) ==
  /\ Apply(m.out)
  /\ last' = [Call("main_ingest",
                   Args(documents, metadata_args, ids, <<>>, 0, m.config),
                   m.out, Cli(m.exit, m.printed, m.count),
                   m.out.err = CollaboratorError("add"), store)
                EXCEPT !.handed = m.handed]
  /\ history' = AfterAdd(history, KeyOf(m.config), ids, Reached(m.out, "add"),
                         m.out.err # NoError)

\* python -m vector_service ingest --document ... --metadata ... --id ...
\* (argparse requires at least one --document and one --id).
MainIngest ==
  /\ last = NoCall
  /\ \E documents \in DocBatches \ {<<>>}, metadata_args \in RawMetaBatches,
     ids \in IdBatches \ {<<>>}, eb \in CliBackendArgs, fault \in BOOLEAN :
       MainIngestDone(documents, metadata_args, ids,
                      main_ingest(documents, metadata_args, ids, None, None, eb, fault,
                                  env, dotenv, dirs, store))

LegacyMainDone(documents, metadatas, ids, m) ==
  /\ dirs' = m.out.dirs
  /\ store' = m.out.store
  /\ UNCHANGED <<env, dotenv>>
  /\ last' = Call("legacy_main", Args(documents, metadatas, ids, <<>>, 0, NoConfig),
                  m.out, Cli(m.exit, m.printed, -1), m.add_raised, store)
  /\ history' = AfterAdd(history, LegacyKey, ids.items, Reached(m.out, "add"),
                         m.add_raised)

\* python add_documents.py --documents ... --metadatas ... --ids ...
\* The script runs in a process of its own: what load_dotenv adds to its
\* environment ends with it.
LegacyMain ==
  /\ last = NoCall
  /\ \E documents \in {JsonList(d) : d \in DocBatches} \cup {JsonOther},
     metadatas \in {JsonList(m) : m \in MetaBatches \cup {<<NotADict>>}}
                     \cup {JsonOther},
     ids \in {JsonList(i) : i \in IdBatches} \cup {JsonOther},
     fault \in BOOLEAN :
       LegacyMainDone(documents, metadatas, ids,
                      legacy_main(documents, metadatas, ids, fault,
                                  env, dotenv, dirs, store))

\* The caller takes the result of the call (or the process has exited);
\* the next call finds the environment and the store as this one left them.
Return ==
  /\ last # NoCall
  /\ last' = NoCall
  /\ UNCHANGED <<env, dotenv, dirs, store, history>>

Next ==
  \/ Return
  \/ GetConfigCall
  \/ AddDocumentsCall
  \/ QueryCollectionCall
  \/ DeleteDocumentsCall
  \/ MainIngest
  \/ LegacyMain

Spec == Init /\ [][Next]_vars

\* The --metadata arguments _parse_metadata is checked on: every text of
\* at most MaxRaw characters over RawAlphabet, the ones main is run with,
\* and these.
RawAlphabet == {"a", "1", "=", ",", " ", "{", "}"}

\* "a=1,b=2"
RawPairs == <<"a", "=", "1", ",", "b", "=", "2">>

\* "a=1=b"
RawEquals == <<"a", "=", "1", "=", "b">>

\* " a = 1 ,, b=2 "
RawSpaced == <<" ", "a", " ", "=", " ", "1", " ", ",", ",", " ", "b", "=", "2", " ">>

\* {"a":"b"}
RawJson == <<"{", "\"", "a", "\"", ":", "\"", "b", "\"", "}">>

\* { "a" : "b" , "b":"a=1" }
RawJsonSpaced ==
  <<"{", " ", Quote, "a", Quote, " ", ":", " ", Quote, "b", Quote, " ", ",",
    " ", Quote, "b", Quote, ":", Quote, "a", "=", "1", Quote, " ", "}">>

\* {"a":"b"
RawJsonOpen == <<"{", "\"", "a", "\"", ":", "\"", "b", "\"">>

RawSamples == {RawPairs, RawEquals, RawSpaced, RawJson, RawJsonSpaced, RawJsonOpen}

ParseArgs ==
  {<<raw>> : raw \in SeqsUpTo(RawAlphabet, MaxRaw) \cup RawMetadatas}
    \cup SeqsUpTo(RawSamples \cup {<<>>}, MaxBatch)

\* _parse_metadata(args.metadata) on its own.
ParseMetadataCall ==
  /\ last = NoCall
  /\ \E metadata_args \in ParseArgs :
    LET o == IF parse_metadata_raises(metadata_args)
             THEN Outcome(JsonDecodeError, <<>>, env, dirs, store, <<>>)
             ELSE Outcome(NoError, <<>>, env, dirs, store, parse_metadata(metadata_args))
    IN last' = Call("parse_metadata", Args(<<>>, metadata_args, <<>>, <<>>, 0, NoConfig),
                    o, NoCli, FALSE, store)
  /\ UNCHANGED <<env, dotenv, dirs, store, history>>

InitParse ==
  /\ env = NoEnviron
  /\ dotenv = NoEnviron
  /\ dirs = {}
  /\ store = [k \in Keys |-> NoCollection]
  /\ last = NoCall
  /\ history = NoHistory

NextParse == ParseMetadataCall \/ Return

SpecParse == InitParse /\ [][NextParse]_vars

\* Configuration resolution alone, over every combination of explicit
\* argument, environment variable and .env entry.
NextConfig == GetConfigCall \/ Return

SpecConfig == InitConfig /\ [][NextConfig]_vars

---------------------------------------------------------------------------
(* Properties *)

Called(name) == \E i \in DOMAIN last.calls : last.calls[i] = name

Distinct(ids) == \A i, j \in DOMAIN ids : i # j => ids[i] # ids[j]

\* The configuration the last store operation ran under.
Effective ==
  IF last.config = NoConfig THEN get_config(None, None, None, env) ELSE last.config

EffectiveKey == <<Effective.persist_directory, Effective.collection_name>>

\* id, document and metadata of the stored items, in order.
Records(items) ==
  [i \in DOMAIN items |-> <<items[i].id, items[i].document, items[i].metadata>>]

\* Which of metadatas and ids differs in length from documents.
OffendingFields(documents, metadatas, ids) ==
  (IF Len(metadatas) # Len(documents) THEN {"metadatas"} ELSE {})
    \cup (IF Len(ids) # Len(documents) THEN {"ids"} ELSE {})

IsListPayload ==
  /\ last.documents.kind = "list"
  /\ last.metadatas.kind = "list"
  /\ last.ids.kind = "list"

\* C1: a batch whose metadatas or ids list differs in length from its
\* documents list is rejected with a ValueError whose message names the
\* mismatched field, by add_documents and by the legacy script's
\* validate_payload alike; the store's add is not called and every
\* collection is as it was before.
C1_LengthMismatchRejected ==
  /\ (last.op = "add_documents"
        /\ OffendingFields(last.documents, last.metadatas, last.ids) # {})
       => /\ last.err = LengthError
          /\ OffendingFields(last.documents, last.metadatas, last.ids)
               \subseteq FieldsNamed(last.err)
          /\ last.calls = <<>>
          /\ store = last.before
  /\ (last.op = "legacy_main" /\ IsListPayload
        /\ OffendingFields(last.documents.items, last.metadatas.items,
                           last.ids.items) # {})
       => /\ last.err.type = "ValueError"
          /\ last.exit = 1
          /\ last.calls = <<>>
          /\ store = last.before
          /\ NotADict \notin Range(last.metadatas.items)
               => /\ last.err = PayloadLengthError
                  /\ OffendingFields(last.documents.items, last.metadatas.items,
                                     last.ids.items) \subseteq FieldsNamed(last.err)

\* A mismatched batch has been offered to a collection that holds a record,
\* under a configuration that would have let the add through.
C1_Witness ==
  /\ last.op = "add_documents"
  /\ Len(last.documents) = 2 /\ Len(last.metadatas) = 2 /\ Len(last.ids) = 1
  /\ Lower(Effective.embedding_backend) = "simple"
  /\ last.before[EffectiveKey].items # <<>>
  /\ last.err = LengthError

\* C2: an equal-length batch with a repeated id is rejected with a
\* validation error about duplicate ids before the store is called, and
\* nothing of the batch is inserted.
C2_DuplicateIdsRejectedBeforeStore ==
  (last.op \in {"add_documents", "main_ingest"}
     /\ Len(last.documents) = Len(last.ids)
     /\ Len(last.metadatas) = Len(last.ids)
     /\ ~Distinct(last.ids))
    => /\ last.err.type = "ValueError"
       /\ ~Called("add")
       /\ store = last.before

\* C3: a batch of n documents, n metadatas and n distinct ids, none of them
\* in the collection, is added whole unless the configuration is unusable
\* or the collaborator itself raises: the call returns, main reports n and
\* exits 0, and the collection holds the records it held followed by
\* (ids[i], documents[i], metadatas[i]) for i = 1..n; no other collection
\* changes.
FreshBatch ==
  /\ Len(last.documents) = Len(last.ids)
  /\ Len(last.metadatas) = Len(last.ids)
  /\ Distinct(last.ids)
  /\ \A i \in DOMAIN last.ids : ~HasId(last.before[EffectiveKey].items, last.ids[i])

BatchRecords(metadatas) ==
  [i \in DOMAIN last.ids |-> <<last.ids[i], last.documents[i], metadatas[i]>>]

AddedWhole(metadatas) ==
  /\ last.err = NoError
  /\ Records(store[EffectiveKey].items)
       = Records(last.before[EffectiveKey].items) \o BatchRecords(metadatas)
  /\ \A k \in Keys \ {EffectiveKey} : store[k] = last.before[k]

C3_FreshBatchAddedWhole ==
  /\ (last.op = "add_documents" /\ FreshBatch
        /\ last.err \notin {MissingKeyError, BackendError, CollaboratorError("add")})
       => AddedWhole(last.metadatas)
  /\ (last.op = "main_ingest" /\ FreshBatch
        /\ ~parse_metadata_raises(last.metadatas)
        /\ last.err \notin {MissingKeyError, BackendError, CollaboratorError("add")})
       => /\ AddedWhole(parse_metadata(last.metadatas))
          /\ last.count = Len(last.ids)
          /\ last.exit = 0

\* main has added two documents, each with its own metadata, and reported 2.
C3_Witness ==
  /\ last.op = "main_ingest"
  /\ Len(last.ids) = 2 /\ Len(last.metadatas) = 2 /\ FreshBatch
  /\ last.err = NoError
  /\ last.count = 2
  /\ Len(store[EffectiveKey].items) = 2

\* C4: query_collection with top_k <= 0 raises the top_k ValueError before
\* any collaborator call: no client, no collection, no query, whatever the
\* configuration.
C4_NonPositiveTopKRejectedFirst ==
  (last.op = "query_collection" /\ last.top_k <= 0)
    => /\ last.err = TopKError
       /\ last.calls = <<>>
       /\ store = last.before

\* top_k = 0 has been rejected under a configuration naming an unsupported
\* backend.
C4_Witness ==
  /\ last.op = "query_collection"
  /\ last.top_k = 0
  /\ last.config # NoConfig
  /\ last.config.embedding_backend = "bogus"
  /\ last.err = TopKError

\* C5: delete_documents with no ids raises the ids ValueError without
\* calling the store's delete, every collection staying as it was; with ids
\* it reaches the store's delete unless the configuration is unusable, the
\* delete is handed exactly the ids given, and after it the collection
\* holds what it held minus the records with those ids.
C5_DeleteForwardsIds ==
  last.op = "delete_documents"
    => /\ last.ids = <<>>
            => /\ last.err = EmptyIdsError
               /\ ~Called("delete")
               /\ store = last.before
       /\ (last.ids # <<>> /\ last.err \notin {MissingKeyError, BackendError})
            => Called("delete")
       /\ (Called("delete") /\ last.err = NoError)
            => /\ last.result = last.ids
               /\ store[EffectiveKey].items
                    = SelectSeq(last.before[EffectiveKey].items,
                                LAMBDA it : it.id \notin Range(last.ids))
               /\ \A k \in Keys \ {EffectiveKey} : store[k] = last.before[k]

\* A delete has removed a stored record and left another in place.
C5_Witness ==
  /\ last.op = "delete_documents"
  /\ last.ids = <<"doc_1">>
  /\ last.err = NoError
  /\ Len(last.before[EffectiveKey].items) = 2
  /\ Len(store[EffectiveKey].items) = 1

\* C6: when the collaborator's add raises, the exception reaches the caller
\* of the add entry point: none returns normally or reports success, and
\* the legacy script exits with status 2 or higher.
C6_AddFailurePropagates ==
  last.add_raised
    => /\ last.err = CollaboratorError("add")
       /\ last.op = "main_ingest" => last.exit # 0
       /\ last.op = "legacy_main" => last.exit >= 2

\* C7 as stated: each field of the configuration is the explicit argument
\* when one is given (is not None), else the environment variable when it
\* is set, else the default.
Precedence(given, arg, var, default) ==
  IF given THEN arg ELSE IF env[var] # Unset THEN env[var] ELSE default

C7_ExplicitArgumentAlwaysWins ==
  last.op = "get_config"
    => /\ last.result.persist_directory
            = Precedence(last.config.persist_directory # None,
                         last.config.persist_directory,
                         "VECTOR_PERSIST_DIRECTORY", "db")
       /\ last.result.collection_name
            = Precedence(last.config.collection_name # None,
                         last.config.collection_name,
                         "VECTOR_COLLECTION_NAME", "lake")
       /\ last.result.embedding_backend
            = Precedence(last.config.embedding_backend # None,
                         last.config.embedding_backend,
                         "VECTOR_EMBEDDING_BACKEND", "openai")

\* C7, amended: each field is the explicit argument when one is given and
\* is not the empty string, else the environment variable when it is set
\* (to whatever value, "" included), else the default; the three fields are
\* resolved independently.
C7_NonEmptyArgumentWins ==
  last.op = "get_config"
    => /\ last.result.persist_directory
            = Precedence(last.config.persist_directory \notin {None, ""},
                         last.config.persist_directory,
                         "VECTOR_PERSIST_DIRECTORY", "db")
       /\ last.result.collection_name
            = Precedence(last.config.collection_name \notin {None, ""},
                         last.config.collection_name,
                         "VECTOR_COLLECTION_NAME", "lake")
       /\ last.result.embedding_backend
            = Precedence(last.config.embedding_backend \notin {None, ""},
                         last.config.embedding_backend,
                         "VECTOR_EMBEDDING_BACKEND", "openai")

\* One resolution takes its directory from the argument although the
\* variable is set, its collection from the variable, and its backend from
\* the default.
C7_Witness ==
  /\ last.op = "get_config"
  /\ last.config.persist_directory = "cli_dir"
  /\ env["VECTOR_PERSIST_DIRECTORY"] = "tmp"
  /\ last.result.persist_directory = "cli_dir"
  /\ last.config.collection_name = None
  /\ env["VECTOR_COLLECTION_NAME"] = "integration_tests"
  /\ last.result.collection_name = "integration_tests"
  /\ last.config.embedding_backend = None
  /\ env["VECTOR_EMBEDDING_BACKEND"] = Unset
  /\ last.result.embedding_backend = "openai"

StoreOps == {"add_documents", "query_collection", "delete_documents", "main_ingest"}

\* JSONDecodeError is a subclass of ValueError.
ArgumentErrors ==
  {LengthError, TopKError, EmptyIdsError, MainLengthError, JsonDecodeError}

\* C8 as stated: resolving the configuration fails whenever the effective
\* backend is neither "openai" nor "simple" (in any letter case); no
\* configuration with another backend is returned.
C8_ResolutionRejectsUnknownBackend ==
  last.op = "get_config"
    => \/ last.err # NoError
       \/ Lower(last.result.embedding_backend) \in {"openai", "simple"}

\* C8, amended: get_config returns the backend name unchecked; an operation
\* whose effective backend, lower-cased, is neither "openai" nor "simple"
\* fails with a ValueError: one about its arguments before any collaborator
\* call, or else the unsupported-backend error once the persistent client
\* is open.  No collection is created or fetched, no add, query or delete
\* reaches the store, and every collection is as it was.
C8_UnknownBackendStopsOperation ==
  (last.op \in StoreOps
     /\ Lower(Effective.embedding_backend) \notin {"openai", "simple"})
    => /\ \/ last.err \in ArgumentErrors /\ last.calls = <<>>
          \/ last.err = BackendError /\ last.calls = <<"PersistentClient">>
       /\ store = last.before

\* An add of a well-formed batch has stopped at the unsupported backend.
C8_Witness ==
  /\ last.op = "add_documents"
  /\ Len(last.documents) = 2 /\ Len(last.metadatas) = 2 /\ Len(last.ids) = 2
  /\ Effective.embedding_backend = "bogus"
  /\ last.err = BackendError
  /\ last.calls = <<"PersistentClient">>

MissingKey ==
  /\ Lower(Effective.embedding_backend) = "openai"
  /\ ~Truthy(env["OPENAI_KEY"])

\* C9 as stated: under the openai backend with no key in the environment an
\* operation fails in this layer and no collaborator call is made, not even
\* the opening of the persistent client.
C9_MissingKeyNoCollaboratorCall ==
  (last.op \in StoreOps /\ MissingKey)
    => /\ last.err \in ArgumentErrors \cup {MissingKeyError}
       /\ last.calls = <<>>
       /\ store = last.before

\* C9, amended: under the openai backend with no key in the environment an
\* operation fails with a ValueError of this layer: one about its arguments
\* before any collaborator call, or else the missing-key error, raised
\* after the persistent client has been opened (its directory created).  No
\* embedding function is built, no collection is created or fetched, and no
\* add, query or delete reaches the store.
C9_MissingKeyStopsAfterClient ==
  (last.op \in StoreOps /\ MissingKey)
    => /\ \/ last.err \in ArgumentErrors /\ last.calls = <<>>
          \/ /\ last.err = MissingKeyError
             /\ last.calls = <<"PersistentClient">>
             /\ Effective.persist_directory \in dirs
       /\ store = last.before

\* A query with a valid top_k has stopped at the missing key.
C9_Witness ==
  /\ last.op = "query_collection"
  /\ last.top_k = 1
  /\ last.config = NoConfig
  /\ MissingKey
  /\ last.err = MissingKeyError
  /\ last.calls = <<"PersistentClient">>

\* C10: under the simple backend, with "Chocolate chip cookies" and
\* "Freshly baked bread" the two documents of the collection, in that
\* order and under distinct ids, the query "chocolate" with top_k = 1
\* returns the id of the first document as its only result.
C10_ChocolateFindsCookies ==
  LET items == last.before[EffectiveKey].items IN
  (/\ last.op = "query_collection"
   /\ last.err = NoError
   /\ last.text = QChocolate
   /\ last.top_k = 1
   /\ Lower(Effective.embedding_backend) = "simple"
   /\ Len(items) = 2
   /\ items[1].document = Cookies
   /\ items[2].document = Bread)
    => /\ Len(last.result) = 1
       /\ last.result[1].id = items[1].id

\* The ids a query returned, and the history of the collection it read.
ReturnedIds == {last.result[i].id : i \in DOMAIN last.result}

Queried == history[EffectiveKey]

\* C11: a query that returns gives back only ids that an add handed to the
\* collection and that no delete has named since, so never a deleted id;
\* and, when every such add returned and top_k is at least the number of
\* these ids, it gives back every one of them.  Each call reaches the
\* collection through a client and a handle of its own.
C11_QueryReturnsLiveIds ==
  (last.op = "query_collection" /\ last.err = NoError)
    => /\ ReturnedIds \subseteq Queried.offered
       /\ (Queried.added = Queried.offered
             /\ last.top_k >= Cardinality(Queried.added))
            => Queried.added \subseteq ReturnedIds
       /\ Called("PersistentClient") /\ Called("get_or_create_collection")

\* A query with top_k = 2 has returned doc_2 alone, from a collection whose
\* only record is the second of a batch of two: doc_1 went in with it, in a
\* call of its own, and a later call deleted it.
C11_Witness ==
  /\ last.op = "query_collection"
  /\ last.err = NoError
  /\ last.top_k = 2
  /\ store[EffectiveKey].items = <<Item("doc_2", Bread, Bakery)>>
  /\ Queried.added = {"doc_2"}
  /\ ReturnedIds = {"doc_2"}
  /\ Len(last.result) = 1

\* C12: main's ingest branch, given one --metadata and n > 1 documents,
\* comes to the length check holding n dicts, each with the items of the
\* one parsed, no two of them the same object and none of them the parsed
\* one; with n ids the batch passes both length checks.  add_documents
\* called with one metadata and n > 1 documents raises the length error
\* before any collaborator call and leaves the store as it was.
C12_CliBroadcastsOneMetadata ==
  /\ (last.op = "main_ingest" /\ Len(last.metadatas) = 1
        /\ Len(last.documents) > 1 /\ ~parse_metadata_raises(last.metadatas))
       => LET parsed == Alloc(parse_metadata(last.metadatas)) IN
          /\ Len(last.handed) = Len(last.documents)
          /\ \A i \in DOMAIN last.handed :
               /\ last.handed[i].value = parsed[1].value
               /\ last.handed[i].ref # parsed[1].ref
          /\ \A i, j \in DOMAIN last.handed :
               i # j => last.handed[i].ref # last.handed[j].ref
          /\ Len(last.ids) = Len(last.documents)
               => last.err \notin {MainLengthError, LengthError}
  /\ (last.op = "add_documents" /\ Len(last.metadatas) = 1
        /\ Len(last.documents) > 1)
       => /\ last.err = LengthError
          /\ last.calls = <<>>
          /\ store = last.before

\* main has ingested two documents under one --metadata: it held two
\* dicts, and the collection's two new records carry the same items.
C12_Witness ==
  /\ last.op = "main_ingest"
  /\ last.metadatas = <<RawDessert>>
  /\ Len(last.documents) = 2 /\ Len(last.ids) = 2
  /\ last.err = NoError
  /\ Len(last.handed) = 2
  /\ last.handed[1].ref # last.handed[2].ref
  /\ Records(store[EffectiveKey].items)
       = <<(<<last.ids[1], Cookies, Dessert>>), (<<last.ids[2], Bread, Dessert>>)>>

\* What the parser is to make of a raw text, said over its positions.
\* The text between the first and the last character that is not a space.
Trimmed(raw) ==
  LET Solid == {k \in DOMAIN raw : raw[k] # " "} IN
  IF Solid = {} THEN <<>>
  ELSE SubSeq(raw, CHOOSE a \in Solid : \A k \in Solid : a <= k,
                   CHOOSE b \in Solid : \A k \in Solid : k <= b)

\* The non-empty stretches <<a, b>> of t between commas.
Segments(t) ==
  {ab \in (DOMAIN t) \X (DOMAIN t) :
     /\ ab[1] <= ab[2]
     /\ \A k \in ab[1]..ab[2] : t[k] # ","
     /\ ab[1] = 1 \/ t[ab[1] - 1] = ","
     /\ ab[2] = Len(t) \/ t[ab[2] + 1] = ","}

\* The key and the value a stretch stands for: what is before and what is
\* after its first "=", trimmed; all of it and nothing when it has none.
SegmentPair(t, ab) ==
  LET seg == SubSeq(t, ab[1], ab[2])
      Eqs == {k \in DOMAIN seg : seg[k] = "="}
      first == CHOOSE k \in Eqs : \A m \in Eqs : k <= m
  IN IF Eqs = {} THEN <<Trimmed(seg), <<>>>>
     ELSE <<Trimmed(SubSeq(seg, 1, first - 1)),
            Trimmed(SubSeq(seg, first + 1, Len(seg)))>>

\* One pair per key, from the last stretch that names the key.
ExpectedPairs(t) ==
  {SegmentPair(t, ab) : ab \in
     {x \in Segments(t) :
        \A y \in Segments(t) :
          y[1] > x[1] => SegmentPair(t, y)[1] # SegmentPair(t, x)[1]}}

\* C13: _parse_metadata returns one mapping per argument, in the order of
\* the arguments, and raises only over an argument that starts with "{":
\* an argument empty after trimming gives the empty mapping; one whose
\* trimmed text starts with "{" gives the JSON object it spells; any other
\* gives the mapping from the key to the value of each of its
\* comma-separated segments, split at the segment's first "=", so that
\* "a=1,b=2" gives {a: "1", b: "2"} and "a=1=b" gives {a: "1=b"}.
C13_ParserMapsEachArgument ==
  last.op = "parse_metadata"
    => /\ last.err # NoError
            => \E i \in DOMAIN last.metadatas :
                 Trimmed(last.metadatas[i]) # <<>>
                   /\ Head(Trimmed(last.metadatas[i])) = "{"
       /\ last.err = NoError
            => /\ Len(last.result) = Len(last.metadatas)
               /\ \A i \in DOMAIN last.metadatas :
                    LET raw == last.metadatas[i]
                        t == Trimmed(raw)
                    IN /\ t = <<>> => last.result[i] = {}
                       /\ (t # <<>> /\ Head(t) # "{")
                            => last.result[i] = ExpectedPairs(t)
                       /\ raw = RawJson => last.result[i] = {<<(<<"a">>), (<<"b">>)>>}
                       /\ raw = RawJsonSpaced
                            => last.result[i] = { <<(<<"a">>), (<<"b">>)>>,
                                                  <<(<<"b">>), (<<"a", "=", "1">>)>> }
                       /\ (t # <<>> /\ Head(t) = "{"
                             /\ \A k \in DOMAIN t : t[k] # Quote)
                            => last.result[i] = {}
                       /\ raw = RawPairs
                            => last.result[i] = { <<(<<"a">>), (<<"1">>)>>,
                                                  <<(<<"b">>), (<<"2">>)>> }
                       /\ raw = RawEquals
                            => last.result[i] = {<<(<<"a">>), (<<"1", "=", "b">>)>>}
       /\ (\E i \in DOMAIN last.metadatas : last.metadatas[i] = RawJsonOpen)
            => last.err = JsonDecodeError

\* The parser has returned the mappings of a JSON argument and of a
\* key=value argument, in the order given.
C13_Witness ==
  /\ last.op = "parse_metadata"
  /\ last.metadatas = <<RawJson, RawPairs>>
  /\ last.err = NoError
  /\ last.result = << {<<(<<"a">>), (<<"b">>)>>},
                      { <<(<<"a">>), (<<"1">>)>>, <<(<<"b">>), (<<"2">>)>> } >>

====
